---- MODULE Spec2Model ----
(***************************************************************************)
(* Model of the repository-state collector of git-status:                  *)
(*   src/src/main.rs       main, init_app_name                             *)
(*   src/src/error.rs      APP_NAME, VERBOSE_ERRORS, log, ok_or_log        *)
(*   src/src/git_utils.rs  process_current_dir, git_subfolder,             *)
(*                         process_repo (two scoped threads), head_info,   *)
(*                         file_status, graph_ahead_behind,                *)
(*                         configuration_overrided, config_bool_var        *)
(*                                                                         *)
(* Spec        the whole run of main, the two units interleaved            *)
(* SpecLocate  git_subfolder / process_current_dir over bounded trees      *)
(* SpecStatus  file_status over bounded status lists                       *)
(* SpecConfig  configuration_overrided over every configuration            *)
(***************************************************************************)
EXTENDS Integers, Sequences, FiniteSets, TLC

VARIABLES
    pc,                          \* position of the main thread
    pcA,                         \* position of Unit A (first spawned closure)
    pcB,                         \* position of Unit B (second spawned closure)
    APP_NAME,                    \* OnceLock<String>   (error.rs:5)
    VERBOSE_ERRORS,              \* OnceLock<bool>     (error.rs:8)
    log_calls,                   \* call sites whose error reached LogError::log
    stderr,                      \* lines written by eprintln! in log
    pcd_result,                  \* Option<Result<GitOutputOptions>> of process_current_dir
    git_dir_buf,                 \* Option<PathBuf> found by git_subfolder
    options,                     \* Option<GetGitInfoOptionsInternal>
    head_info_internal,          \* Unit A local: Option<GitHeadInfoInternal>
    ahead_behind,                \* Unit A local: Option<GitBranchAheadBehind>
    gab_called,                  \* graph_ahead_behind has been entered by Unit A
    gab_head,                    \* the head it was entered with
    head_info_result,            \* process_repo local, written by Unit A
    branch_ahead_behind_result,  \* process_repo local, written by Unit A
    file_status_result,          \* process_repo local, written by Unit B
    index_refreshed,             \* the status call reloaded the index
    index_written,               \* the status call wrote the index file back
    theme_git,                   \* ThemeData.git once main has built it
    loc_in, loc_out,             \* SpecLocate: input and result
    st_in, st_scanned, st_out,   \* SpecStatus: input, scanned entries, result
    cfg_in, cfg_out              \* SpecConfig: input and result

vars == << pc, pcA, pcB, APP_NAME, VERBOSE_ERRORS, log_calls, stderr, pcd_result,
           git_dir_buf, options, head_info_internal, ahead_behind, gab_called,
           gab_head, head_info_result, branch_ahead_behind_result,
           file_status_result, index_refreshed, index_written,
           theme_git, loc_in, loc_out, st_in, st_scanned, st_out, cfg_in, cfg_out >>

mainVars == << pc, pcA, pcB, APP_NAME, VERBOSE_ERRORS, log_calls, stderr, pcd_result,
               git_dir_buf, options, head_info_internal, ahead_behind, gab_called,
               gab_head, head_info_result, branch_ahead_behind_result,
               file_status_result, index_refreshed, index_written,
               theme_git >>

locVars == << loc_in, loc_out >>
stVars  == << st_in, st_scanned, st_out >>
cfgVars == << cfg_in, cfg_out >>

(***************************************************************************)
(* Bounds                                                                  *)
(***************************************************************************)
\* deepest directory of the modelled tree, and longest start path
MaxDepth == 3
\* most paths in one status list
MaxPaths == 2
\* deepest directory of the trees the whole-program specification starts in
MainDepth == 1

(***************************************************************************)
(* Option and Result                                                       *)
(***************************************************************************)
None == << >>
Some(x) == << x >>
IsSome(o) == o # None
Unwrap(o) == o[1]

Ok(x) == [ok |-> TRUE, val |-> x, err |-> "-"]
Err(e) == [ok |-> FALSE, val |-> None, err |-> e]

(***************************************************************************)
(* error.rs                                                                *)
(***************************************************************************)
\* LogError::log: the outcome of one call given the two set-once globals.
\* "panic" is Option::unwrap on an unset OnceLock.
log(verbose, app_name) ==
    IF verbose = None THEN "panic"
    ELSE IF Unwrap(verbose)
         THEN (IF app_name = None THEN "panic" ELSE "printed")
         ELSE "silent"

\* MapLog::ok_or_log: [outcome, value]; log is called only for an Err.
ok_or_log(result, verbose, app_name) ==
    IF result.ok
    THEN [outcome |-> "ok", value |-> Some(result.val)]
    ELSE [outcome |-> log(verbose, app_name), value |-> None]

\* what one ok_or_log call does to log_calls and stderr
Logged(result, site) ==
    IF result.ok THEN log_calls ELSE log_calls \cup {site}

Printed(result, site) ==
    IF ~result.ok /\ log(VERBOSE_ERRORS, APP_NAME) = "printed"
    THEN Append(stderr, site) ELSE stderr

Panics(result) == ok_or_log(result, VERBOSE_ERRORS, APP_NAME).outcome = "panic"

(***************************************************************************)
(* git_utils.rs: git_subfolder, process_current_dir                        *)
(***************************************************************************)
\* A path is [abs, comps]; every directory of the modelled tree is named "d",
\* so an absolute directory is identified by its component sequence.
DirName == "d"
Comps(n) == [i \in 1..n |-> DirName]
AbsPath(n) == [abs |-> TRUE, comps |-> Comps(n)]
RelPath(n) == [abs |-> FALSE, comps |-> Comps(n)]

\* Path::ancestors: the path, then each lexical prefix, down to "/" or "".
RECURSIVE ancestors(_)
ancestors(path) ==
    IF Len(path.comps) = 0 THEN << path >>
    ELSE << path >> \o
         ancestors([path EXCEPT !.comps = SubSeq(path.comps, 1, Len(path.comps) - 1)])

\* The directory a path names: a relative path is taken from the working
\* directory, and names nothing when that cannot be read.
\* fs = [depth: deepest existing directory, git: depths holding ".git",
\*       cwd: components of the working directory, or None when unreadable]
Resolve(fs, path) ==
    IF path.abs THEN Some(path.comps)
    ELSE IF fs.cwd = None THEN None
    ELSE Some(Unwrap(fs.cwd) \o path.comps)

\* Path::exists of a path, and of path.join(".git")
PathExists(fs, path) ==
    /\ Resolve(fs, path) # None
    /\ Len(Unwrap(Resolve(fs, path))) <= fs.depth

GitExists(fs, path) ==
    /\ PathExists(fs, path)
    /\ Len(Unwrap(Resolve(fs, path))) \in fs.git

\* a search that keeps the least specific ancestor holding ".git"
RECURSIVE FirstWithGitFarthest(_, _)
FirstWithGitFarthest(fs, subs) ==
    IF subs = << >> THEN None
    ELSE IF GitExists(fs, subs[Len(subs)]) THEN Some(subs[Len(subs)])
    ELSE FirstWithGitFarthest(fs, SubSeq(subs, 1, Len(subs) - 1))

\* the for loop of git_subfolder over path.ancestors()
RECURSIVE FirstWithGit(_, _)
FirstWithGit(fs, subs) ==
    IF subs = << >> THEN None
    ELSE IF GitExists(fs, Head(subs)) THEN Some(Head(subs))
    ELSE FirstWithGit(fs, Tail(subs))

git_subfolder(start_folder, fs) ==
    IF start_folder = None /\ fs.cwd = None THEN Err("Io")
    ELSE LET path == IF start_folder # None THEN Unwrap(start_folder)
                     ELSE [abs |-> TRUE, comps |-> Unwrap(fs.cwd)]
         IN  IF ~PathExists(fs, path) THEN Err("PathNotFound")
             ELSE Ok(FirstWithGit(fs, ancestors(path)))

\* process_current_dir up to the call of process_repo: Ok(git_dir_buf) or Err
locate(start_folder, fs) ==
    LET sub == git_subfolder(start_folder, fs)
    IN  IF ~sub.ok THEN sub
        ELSE IF sub.val = None THEN Err("RepositoryNotFound")
        ELSE Ok(Unwrap(sub.val))

(***************************************************************************)
(* git_utils.rs: configuration_overrided, config_bool_var                  *)
(***************************************************************************)
\* env!("CARGO_BIN_NAME"): the namespace of the configuration keys
CARGO_BIN_NAME == "git-status"

\* the fields of GetGitInfoOptionsInternal
Flags == {"include_submodules", "include_untracked", "refresh_status",
          "include_ahead_behind", "include_workdir_stats"}

\* the key names passed to config_bool_var, lines 259-279
KeyNames == {"include-submodules", "include-untracked", "refresh-status",
             "include-ahead-behind", "include-workdir-stats"}

Key(name) == << CARGO_BIN_NAME, name >>

\* A configuration snapshot maps each key to its stored text; NoEntry stands
\* for a key the snapshot does not hold.
NoEntry == "<none>"

\* Config::get_bool: the stored text read as a boolean, an error for a
\* missing key or for text that is no boolean.
get_bool(config, key) ==
    IF key \notin DOMAIN config \/ config[key] = NoEntry THEN Err("NotFound")
    ELSE IF config[key] \in {"true", "yes", "on", "1"} THEN Ok(TRUE)
    ELSE IF config[key] \in {"false", "no", "off", "0"} THEN Ok(FALSE)
    ELSE Err("Invalid")

\* a lookup of the bare key name, without the CARGO_BIN_NAME namespace
config_bool_var_unnamespaced(config, name, default_value) ==
    LET r == get_bool(config, << name >>)
    IN  IF r.ok THEN r.val ELSE default_value

config_bool_var(config, name, default_value) ==
    LET r == get_bool(config, Key(name))
    IN  IF r.ok THEN r.val ELSE default_value

\* repo_open: Result of Repository::open(path); snapshot: Result of
\* repo.config()?.snapshot()?, holding the configuration
configuration_overrided(repo_open, snapshot, git_info_options) ==
    IF ~repo_open.ok THEN Err("Git")
    ELSE IF ~snapshot.ok THEN Err("Git")
    ELSE Ok([include_submodules |->
                config_bool_var(snapshot.val, "include-submodules",
                                git_info_options.include_submodules),
             include_untracked |->
                config_bool_var(snapshot.val, "include-untracked",
                                git_info_options.include_untracked),
             refresh_status |->
                config_bool_var(snapshot.val, "refresh-status",
                                git_info_options.refresh_status),
             include_ahead_behind |->
                config_bool_var(snapshot.val, "include-ahead-behind",
                                git_info_options.include_ahead_behind),
             include_workdir_stats |->
                config_bool_var(snapshot.val, "include-workdir-stats",
                                git_info_options.include_workdir_stats)])

(***************************************************************************)
(* git_utils.rs: file_status                                               *)
(***************************************************************************)
\* git2::Status is a bit set; a value is the set of its bit positions.
\* The named flags, in the order the type declares them.
FlagOrder == << "CURRENT", "INDEX_NEW", "INDEX_MODIFIED", "INDEX_DELETED",
                "INDEX_RENAMED", "INDEX_TYPECHANGE", "WT_NEW", "WT_MODIFIED",
                "WT_DELETED", "WT_TYPECHANGE", "WT_RENAMED", "IGNORED",
                "CONFLICTED" >>

FlagBits(flag) ==
    CASE flag = "CURRENT"          -> {}
      [] flag = "INDEX_NEW"        -> {0}
      [] flag = "INDEX_MODIFIED"   -> {1}
      [] flag = "INDEX_DELETED"    -> {2}
      [] flag = "INDEX_RENAMED"    -> {3}
      [] flag = "INDEX_TYPECHANGE" -> {4}
      [] flag = "WT_NEW"           -> {7}
      [] flag = "WT_MODIFIED"      -> {8}
      [] flag = "WT_DELETED"       -> {9}
      [] flag = "WT_TYPECHANGE"    -> {10}
      [] flag = "WT_RENAMED"       -> {11}
      [] flag = "IGNORED"          -> {14}
      [] flag = "CONFLICTED"       -> {15}

WorkdirBits == {7, 8, 9, 10, 11}

\* Iterating a Status value yields each named flag it contains that still
\* covers a bit not yielded before; the empty flag CURRENT covers none.
\* Every bit of a Status read from the repository belongs to a named flag,
\* so no unnamed remainder is yielded.
RECURSIVE IterStatus(_, _, _)
IterStatus(source, remaining, idx) ==
    IF idx > Len(FlagOrder) \/ remaining = {} THEN << >>
    ELSE LET bits == FlagBits(FlagOrder[idx])
         IN  IF bits \subseteq source /\ bits \cap remaining # {}
             THEN << FlagOrder[idx] >> \o IterStatus(source, remaining \ bits, idx + 1)
             ELSE IterStatus(source, remaining, idx + 1)

\* a match whose WT_TYPECHANGE arm sets unstaged
StatusArmTypechangeUnstaged(status) ==
    CASE status = "CURRENT"          -> "conflict"
      [] status = "INDEX_NEW"        -> "staged"
      [] status = "INDEX_MODIFIED"   -> "staged"
      [] status = "INDEX_DELETED"    -> "staged"
      [] status = "INDEX_RENAMED"    -> "staged"
      [] status = "INDEX_TYPECHANGE" -> "staged"
      [] status = "WT_NEW"           -> "untracked"
      [] status = "WT_MODIFIED"      -> "unstaged"
      [] status = "WT_DELETED"       -> "unstaged"
      [] status = "WT_TYPECHANGE"    -> "unstaged"
      [] status = "WT_RENAMED"       -> "unstaged"
      [] status = "IGNORED"          -> "none"
      [] status = "CONFLICTED"       -> "conflict"
      [] OTHER                       -> "none"

\* the match of lines 191-206: the field one yielded flag sets
StatusArm(status) ==
    CASE status = "CURRENT"          -> "conflict"
      [] status = "INDEX_NEW"        -> "staged"
      [] status = "INDEX_MODIFIED"   -> "staged"
      [] status = "INDEX_DELETED"    -> "staged"
      [] status = "INDEX_RENAMED"    -> "staged"
      [] status = "INDEX_TYPECHANGE" -> "staged"
      [] status = "WT_NEW"           -> "untracked"
      [] status = "WT_MODIFIED"      -> "unstaged"
      [] status = "WT_DELETED"       -> "unstaged"
      [] status = "WT_TYPECHANGE"    -> "typechange"
      [] status = "WT_RENAMED"       -> "unstaged"
      [] status = "IGNORED"          -> "none"
      [] status = "CONFLICTED"       -> "conflict"
      [] OTHER                       -> "none"

NoFileStatus == [conflict |-> FALSE, untracked |-> FALSE, typechange |-> FALSE,
                 unstaged |-> FALSE, staged |-> FALSE]

\* the for loop of lines 190-207
RECURSIVE FoldStatus(_, _)
FoldStatus(yielded, acc) ==
    IF yielded = << >> THEN acc
    ELSE LET arm == StatusArm(Head(yielded))
         IN  FoldStatus(Tail(yielded),
                        IF arm = "none" THEN acc ELSE [acc EXCEPT ![arm] = TRUE])

\* lines 178-182: the union of the entries' bit sets
RECURSIVE UnionAll(_)
UnionAll(statuses) ==
    IF statuses = << >> THEN {}
    ELSE Head(statuses) \cup UnionAll(Tail(statuses))

\* lines 163-174: the StatusOptions built from the resolved options
StatusOptionsOf(opts) ==
    [show               |-> IF opts.include_workdir_stats
                            THEN "IndexAndWorkdir" ELSE "Index",
     no_refresh         |-> opts.refresh_status,
     update_index       |-> opts.refresh_status,
     exclude_submodules |-> ~opts.include_submodules,
     include_ignored    |-> FALSE,
     include_unreadable |-> FALSE,
     include_untracked  |-> opts.include_untracked]

\* What the status call lists for one path whose full state is bits: the
\* bits the options leave visible; a path with none is not listed.
Visible(bits, sopts) ==
    ((bits \ (IF sopts.show = "Index" THEN WorkdirBits ELSE {}))
          \ (IF sopts.include_untracked THEN {} ELSE {7}))
          \ (IF sopts.include_ignored THEN {} ELSE {14})

RECURSIVE Scan(_, _)
Scan(worktree, sopts) ==
    IF worktree = << >> THEN << >>
    ELSE (IF Visible(Head(worktree), sopts) = {} THEN << >>
          ELSE << Visible(Head(worktree), sopts) >>) \o Scan(Tail(worktree), sopts)

\* repo.statuses(Some(status_options)), line 176.
\* repo = [status_ok, worktree, stale]; stale: the index holds out-of-date
\* stat data that an index update would rewrite.
repo_statuses(repo, sopts) ==
    IF ~repo.status_ok THEN Err("Git") ELSE Ok(Scan(repo.worktree, sopts))

\* the index is reloaded unless no_refresh is set
StatusRefreshes(repo, sopts) == repo.status_ok /\ ~sopts.no_refresh

\* the index file is written back when update_index is set, the working
\* directory is compared and some entry is stale
StatusWrites(repo, sopts) ==
    /\ repo.status_ok
    /\ sopts.update_index
    /\ sopts.show = "IndexAndWorkdir"
    /\ repo.stale

\* Result<GitFileStatus>
file_status(repo, opts) ==
    LET statuses == repo_statuses(repo, StatusOptionsOf(opts))
    IN  IF ~statuses.ok THEN Err(statuses.err)
        ELSE LET statuses_all == UnionAll(statuses.val)
             IN  Ok(FoldStatus(IterStatus(statuses_all, statuses_all, 1), NoFileStatus))

(***************************************************************************)
(* git_utils.rs: head_info, From<GitHeadInfoInternal>, graph_ahead_behind  *)
(***************************************************************************)
\* A reference name is the sequence of its "/"-separated segments.
HEAD == << "HEAD" >>
RefsHeadsMain == << "refs", "heads", "main" >>
RefsRemotesOriginMain == << "refs", "remotes", "origin", "main" >>

\* An Oid is 20 bytes; Oid::to_string is its 40 hexadecimal digits.
OidA == [i \in 1..20 |-> (i * 37) % 256]
OidB == [i \in 1..20 |-> (i * 91 + 5) % 256]

OidToString(oid) ==
    [i \in 1..(2 * Len(oid)) |->
        IF i % 2 = 1 THEN oid[(i + 1) \div 2] \div 16 ELSE oid[i \div 2] % 16]

\* util::LastPart::last_part: the segment after the last "/"
last_part(name) == << name[Len(name)] >>

\* A reference of the repository:
\*   kind "None" | "Symbolic" | "Direct", name: Option (None when not UTF-8),
\*   symbolic_target: Option name, resolve: Result of following the chain to
\*   a direct reference's target, target: Option oid
Reference(kind, name, symbolic_target, resolve, target) ==
    [kind |-> kind, name |-> name, symbolic_target |-> symbolic_target,
     resolve |-> resolve, target |-> target]

\* repo.find_reference(name); repo.refs maps the names the repository holds
find_reference(repo, name) ==
    IF name \in DOMAIN repo.refs THEN Ok(repo.refs[name]) ELSE Err("Git")

GitHeadInfoInternal(reference_name, oid, detached) ==
    [reference_name |-> reference_name, oid |-> oid, detached |-> detached]

\* head_info, lines 123-157. The result carries resolve_logged: whether the
\* ok_or_log of line 136 was handed an error.
head_info(repo, input_reference_name) ==
    LET detached  == IF repo.head_detached.ok THEN repo.head_detached.val ELSE FALSE
        found     == find_reference(repo, input_reference_name)
        reference == found.val
    IN  IF ~found.ok THEN [result |-> Err(found.err), resolve_logged |-> FALSE]
        ELSE IF reference.kind = "None"
        THEN [result |-> Ok(GitHeadInfoInternal(None, None, detached)),
              resolve_logged |-> FALSE]
        ELSE IF reference.kind = "Symbolic"
        THEN [result |-> Ok(GitHeadInfoInternal(
                               reference.symbolic_target,
                               IF reference.resolve.ok THEN reference.resolve.val ELSE None,
                               detached)),
              resolve_logged |-> ~reference.resolve.ok]
        ELSE [result |-> Ok(GitHeadInfoInternal(reference.name, reference.target, detached)),
              resolve_logged |-> FALSE]

\* From<GitHeadInfoInternal> for GitHeadInfo, lines 108-121
GitHeadInfoFrom(val) ==
    [reference_short |-> IF val.reference_name = None THEN None
                         ELSE Some(last_part(Unwrap(val.reference_name))),
     oid_short       |-> IF val.oid = None THEN None
                         ELSE Some(SubSeq(OidToString(Unwrap(val.oid)), 1, 8)),
     detached        |-> val.detached]

ZeroAheadBehind == [ahead |-> 0, behind |-> 0]

\* a graph_ahead_behind that answers a missing name or oid with zeroes
graph_ahead_behind_zeroed(repo, head) ==
    LET reference == IF head = None THEN None ELSE Unwrap(head).reference_name
        head_oid  == IF head = None THEN None ELSE Unwrap(head).oid
    IN  IF reference = None \/ head_oid = None
        THEN Ok(ZeroAheadBehind)
        ELSE Err("Git")

\* graph_ahead_behind, lines 218-249.
\* repo.upstream: local name -> Result<Option name> of branch_upstream_name
\* (Ok(None): a name that is not UTF-8); repo.graph: Result<<ahead, behind>>
graph_ahead_behind(repo, head) ==
    LET reference == IF head = None THEN None ELSE Unwrap(head).reference_name
        head_oid  == IF head = None THEN None ELSE Unwrap(head).oid
    IN  IF reference = None \/ head_oid = None
        THEN Err("tracking branch doesn't exist")
        ELSE IF Unwrap(reference) \notin DOMAIN repo.upstream
        THEN Err("Git")
        ELSE LET tracking_branch == repo.upstream[Unwrap(reference)]
             IN  IF tracking_branch = None
                 THEN Err("tracking branch can't be converted to an UTF-8 string")
                 ELSE LET tracking_reference == find_reference(repo, Unwrap(tracking_branch))
                      IN  IF ~tracking_reference.ok THEN Err("Git")
                          ELSE IF tracking_reference.val.target = None
                          THEN Err("tracking branch {:?} has no oid")
                          ELSE IF ~repo.graph.ok THEN Err("Git")
                          ELSE Ok([ahead  |-> repo.graph.val[1],
                                   behind |-> repo.graph.val[2]])

\* lines 63-69: the match on the resolved include_ahead_behind. gab is the
\* Result graph_ahead_behind gives when it is called.
ahead_behind_match(opts, gab) ==
    IF opts.include_ahead_behind
    THEN [computed |-> TRUE,  result |-> gab]
    ELSE [computed |-> FALSE, result |-> Ok(ZeroAheadBehind)]

(***************************************************************************)
(* The environment the program reads                                       *)
(***************************************************************************)
\* directory trees: a chain of MaxDepth directories below the root
FsSet(max) ==
    UNION { { [depth |-> d, git |-> g, cwd |-> c] :
                g \in SUBSET (0..d),
                c \in {None} \cup { Some(Comps(n)) : n \in 0..d } } :
            d \in 0..max }

\* GetGitInfoOptions.start_folder
StartFolders(max) ==
    {None} \cup { Some(AbsPath(n)) : n \in 0..max }
           \cup { Some(RelPath(n)) : n \in 0..max }

\* Repository::open(path)
OpenResults == { Ok("repo"), Err("Git") }

\* the stored texts a configuration key is given here
CfgValues == { NoEntry, "true", "off", "junk" }
Configs == [ { Key(n) : n \in KeyNames } -> CfgValues ]

\* the configurations the whole-program specification reads: the keys of the
\* two flags that steer Unit A and the index, the other keys unset
MainConfigs ==
    { c \in Configs :
        \A n \in KeyNames \ { "include-ahead-behind", "refresh-status" } :
            c[Key(n)] = NoEntry }

\* GetGitInfoOptions: the five request defaults and the reference name
InputOptions ==
    [ include_submodules : BOOLEAN, include_untracked : BOOLEAN,
      refresh_status : BOOLEAN, include_ahead_behind : BOOLEAN,
      include_workdir_stats : BOOLEAN, reference_name : {HEAD} ]

\* the references a repository may hold under HEAD
HeadReferences ==
    { Reference("None", Some(HEAD), None, Err("Git"), None),
      Reference("Symbolic", Some(HEAD), Some(RefsHeadsMain), Ok(Some(OidA)), None),
      Reference("Symbolic", Some(HEAD), Some(RefsHeadsMain), Err("Git"), None),
      Reference("Symbolic", Some(HEAD), None, Ok(Some(OidA)), None),
      Reference("Direct", Some(HEAD), None, Ok(Some(OidB)), Some(OidB)) }

\* and under refs/remotes/origin/main
TrackingReferences ==
    { Reference("Direct", Some(RefsRemotesOriginMain), None, Ok(Some(OidB)), Some(OidB)),
      Reference("Symbolic", Some(RefsRemotesOriginMain), Some(RefsHeadsMain),
                Ok(Some(OidB)), None) }

RefTables ==
    { << >> }
    \cup { [n \in {HEAD} |-> h] : h \in HeadReferences }
    \cup { [n \in {HEAD, RefsRemotesOriginMain} |->
               IF n = HEAD THEN h ELSE t] : h \in HeadReferences, t \in TrackingReferences }

Upstreams ==
    { << >>,
      [n \in {RefsHeadsMain} |-> Some(RefsRemotesOriginMain)],
      [n \in {RefsHeadsMain} |-> None] }

GraphResults == { Err("Git"), Ok(<< 0, 0 >>), Ok(<< 3, 2 >>) }

\* what head_info reads of a repository
HeadRepos ==
    [ head_detached : { Ok(TRUE), Ok(FALSE), Err("Git") },
      refs : RefTables, upstream : { << >> }, graph : { Err("Git") } ]

\* what graph_ahead_behind reads of a repository
UpstreamRepos ==
    [ head_detached : { Ok(FALSE) },
      refs : { << >> } \cup { [n \in {RefsRemotesOriginMain} |-> t] :
                                  t \in TrackingReferences },
      upstream : Upstreams, graph : GraphResults ]

\* the full status of one path of the working tree
StatusValues ==
    { FlagBits(FlagOrder[i]) : i \in 1..Len(FlagOrder) } \cup { {0, 8}, {1, 10} }

RECURSIVE SeqsUpTo(_, _)
SeqsUpTo(S, n) ==
    IF n = 0 THEN { << >> }
    ELSE SeqsUpTo(S, n - 1) \cup
         { Append(q, x) : q \in { r \in SeqsUpTo(S, n - 1) : Len(r) = n - 1 }, x \in S }

Worktrees == SeqsUpTo(StatusValues, MaxPaths)

\* the working trees Unit B meets in the whole-program specification
MainWorktrees == { << >>, << {0}, {7} >>, << {0, 8} >>, << {15}, {10} >> }

StatusRepos(worktrees) ==
    [ status_ok : BOOLEAN, worktree : worktrees, stale : BOOLEAN ]

(***************************************************************************)
(* Initial state: main has not started                                     *)
(***************************************************************************)
MainInit ==
    /\ pc = "init_app_name"
    /\ pcA = "unspawned"
    /\ pcB = "unspawned"
    /\ APP_NAME = None
    /\ VERBOSE_ERRORS = None
    /\ log_calls = {}
    /\ stderr = << >>
    /\ pcd_result = None
    /\ git_dir_buf = None
    /\ options = None
    /\ head_info_internal = None
    /\ ahead_behind = None
    /\ gab_called = FALSE
    /\ gab_head = None
    /\ head_info_result = None
    /\ branch_ahead_behind_result = None
    /\ file_status_result = None
    /\ index_refreshed = FALSE
    /\ index_written = FALSE
    /\ theme_git = None

LocIdle == loc_in = None /\ loc_out = None
StIdle  == st_in = None /\ st_scanned = None /\ st_out = None
CfgIdle == cfg_in = None /\ cfg_out = None

Init == MainInit /\ LocIdle /\ StIdle /\ CfgIdle

(***************************************************************************)
(* main.rs: main, init_app_name                                            *)
(***************************************************************************)
subVars == << loc_in, loc_out, st_in, st_scanned, st_out, cfg_in, cfg_out >>

\* init_app_name, lines 30-43: APP_NAME.get_or_init; the name is the
\* executable's stem or the empty string, either branch of line 32 being
\* possible. VERBOSE_ERRORS is only read here: setup_errors (error.rs:114),
\* the one place that sets it, has no caller on the way from main.
InitAppName ==
    /\ pc = "init_app_name"
    /\ \E name \in { "", CARGO_BIN_NAME } :
          APP_NAME' = IF APP_NAME = None THEN Some(name) ELSE APP_NAME
    /\ pc' = "git_subfolder"
    /\ UNCHANGED << pcA, pcB, VERBOSE_ERRORS, log_calls, stderr, pcd_result,
                    git_dir_buf, options, head_info_internal, ahead_behind,
                    gab_called, gab_head, head_info_result,
                    branch_ahead_behind_result, file_status_result,
                    index_refreshed, index_written, theme_git, subVars >>

\* process_current_dir, lines 16-17: git_subfolder(options)?.ok_or_else(..)?
GitSubfolder ==
    /\ pc = "git_subfolder"
    /\ \E start_folder \in StartFolders(MainDepth), fs \in FsSet(MainDepth) :
          LET r == locate(start_folder, fs)
          IN  IF r.ok
              THEN /\ git_dir_buf' = Some(r.val)
                   /\ pc' = "configuration_overrided"
                   /\ UNCHANGED pcd_result
              ELSE /\ pcd_result' = Some(r)
                   /\ pc' = "ok_or_log"
                   /\ UNCHANGED git_dir_buf
    /\ UNCHANGED << pcA, pcB, APP_NAME, VERBOSE_ERRORS, log_calls, stderr,
                    options, head_info_internal, ahead_behind, gab_called,
                    gab_head, head_info_result, branch_ahead_behind_result,
                    file_status_result, index_refreshed, index_written,
                    theme_git, subVars >>

\* process_repo, line 48: configuration_overrided(path, input_options)?
ConfigurationOverrided ==
    /\ pc = "configuration_overrided"
    /\ \E repo_open \in OpenResults,
          snapshot \in { Err("Git") } \cup { Ok(c) : c \in MainConfigs },
          input_options \in InputOptions :
          LET r == configuration_overrided(repo_open, snapshot, input_options)
          IN  IF r.ok
              THEN /\ options' = Some(r.val)
                   /\ pc' = "spawn_a"
                   /\ UNCHANGED pcd_result
              ELSE /\ pcd_result' = Some(r)
                   /\ pc' = "ok_or_log"
                   /\ UNCHANGED options
    /\ UNCHANGED << pcA, pcB, APP_NAME, VERBOSE_ERRORS, log_calls, stderr,
                    git_dir_buf, head_info_internal, ahead_behind, gab_called,
                    gab_head, head_info_result, branch_ahead_behind_result,
                    file_status_result, index_refreshed, index_written,
                    theme_git, subVars >>

\* thread::scope, lines 54-55 and 75: the two closures are spawned in turn
SpawnA ==
    /\ pc = "spawn_a"
    /\ pcA' = "open"
    /\ pc' = "spawn_b"
    /\ UNCHANGED << pcB, APP_NAME, VERBOSE_ERRORS, log_calls, stderr, pcd_result,
                    git_dir_buf, options, head_info_internal, ahead_behind,
                    gab_called, gab_head, head_info_result,
                    branch_ahead_behind_result, file_status_result,
                    index_refreshed, index_written, theme_git, subVars >>

SpawnB ==
    /\ pc = "spawn_b"
    /\ pcB' = "open"
    /\ pc' = "join"
    /\ UNCHANGED << pcA, APP_NAME, VERBOSE_ERRORS, log_calls, stderr, pcd_result,
                    git_dir_buf, options, head_info_internal, ahead_behind,
                    gab_called, gab_head, head_info_result,
                    branch_ahead_behind_result, file_status_result,
                    index_refreshed, index_written, theme_git, subVars >>

(***************************************************************************)
(* Unit A, lines 55-73                                                     *)
(***************************************************************************)
\* where a unit goes after an ok_or_log: on with "next", to its return with
\* "done" when the value is None and the code returns, or down in a panic
AfterLog(result, next, onNone) ==
    IF Panics(result) THEN "panicked"
    ELSE IF result.ok THEN next ELSE onNone

\* lines 56-60
A_Open ==
    /\ pcA = "open"
    /\ \E r \in OpenResults :
          /\ log_calls' = Logged(r, "A.open")
          /\ stderr' = Printed(r, "A.open")
          /\ pcA' = AfterLog(r, "head_info", "done")
    /\ UNCHANGED << pc, pcB, APP_NAME, VERBOSE_ERRORS, pcd_result, git_dir_buf,
                    options, head_info_internal, ahead_behind, gab_called,
                    gab_head, head_info_result, branch_ahead_behind_result,
                    file_status_result, index_refreshed, index_written,
                    theme_git, subVars >>

\* line 61: head_info(&repo, input_options.reference_name).ok_or_log(); the
\* ok_or_log of line 136 runs inside it, before the one of line 61
A_HeadInfo ==
    /\ pcA = "head_info"
    /\ \E repo \in HeadRepos :
          LET h     == head_info(repo, HEAD)
              sites == (IF h.resolve_logged THEN << "A.resolve" >> ELSE << >>)
                       \o (IF h.result.ok THEN << >> ELSE << "A.head_info" >>)
          IN  IF sites # << >> /\ log(VERBOSE_ERRORS, APP_NAME) = "panic"
              THEN /\ log_calls' = log_calls \cup { Head(sites) }
                   /\ pcA' = "panicked"
                   /\ UNCHANGED << stderr, head_info_internal >>
              ELSE /\ log_calls' = log_calls \cup { sites[i] : i \in DOMAIN sites }
                   /\ stderr' = IF log(VERBOSE_ERRORS, APP_NAME) = "printed"
                                THEN stderr \o sites ELSE stderr
                   /\ pcA' = "ahead_behind"
                   /\ head_info_internal' =
                         ok_or_log(h.result, VERBOSE_ERRORS, APP_NAME).value
    /\ UNCHANGED << pc, pcB, APP_NAME, VERBOSE_ERRORS, pcd_result, git_dir_buf,
                    options, ahead_behind, gab_called, gab_head,
                    head_info_result, branch_ahead_behind_result,
                    file_status_result, index_refreshed, index_written,
                    theme_git, subVars >>

\* lines 63-69
A_AheadBehind ==
    /\ pcA = "ahead_behind"
    /\ \E repo \in UpstreamRepos :
          LET m == ahead_behind_match(Unwrap(options),
                                      graph_ahead_behind(repo, head_info_internal))
          IN  /\ gab_called' = m.computed
              /\ gab_head' = IF m.computed THEN Some(head_info_internal) ELSE gab_head
              /\ log_calls' = Logged(m.result, "A.graph_ahead_behind")
              /\ stderr' = Printed(m.result, "A.graph_ahead_behind")
              /\ pcA' = AfterLog(m.result, "store", "store")
              /\ ahead_behind' =
                    IF Panics(m.result) THEN ahead_behind
                    ELSE ok_or_log(m.result, VERBOSE_ERRORS, APP_NAME).value
    /\ UNCHANGED << pc, pcB, APP_NAME, VERBOSE_ERRORS, pcd_result, git_dir_buf,
                    options, head_info_internal, head_info_result,
                    branch_ahead_behind_result, file_status_result,
                    index_refreshed, index_written, theme_git, subVars >>

\* lines 71-72
A_Store ==
    /\ pcA = "store"
    /\ branch_ahead_behind_result' = ahead_behind
    /\ head_info_result' =
          IF head_info_internal = None THEN None
          ELSE Some(GitHeadInfoFrom(Unwrap(head_info_internal)))
    /\ pcA' = "done"
    /\ UNCHANGED << pc, pcB, APP_NAME, VERBOSE_ERRORS, log_calls, stderr,
                    pcd_result, git_dir_buf, options, head_info_internal,
                    ahead_behind, gab_called, gab_head, file_status_result,
                    index_refreshed, index_written, theme_git, subVars >>

(***************************************************************************)
(* Unit B, lines 75-82                                                     *)
(***************************************************************************)
\* lines 76-80
B_Open ==
    /\ pcB = "open"
    /\ \E r \in OpenResults :
          /\ log_calls' = Logged(r, "B.open")
          /\ stderr' = Printed(r, "B.open")
          /\ pcB' = AfterLog(r, "file_status", "done")
    /\ UNCHANGED << pc, pcA, APP_NAME, VERBOSE_ERRORS, pcd_result, git_dir_buf,
                    options, head_info_internal, ahead_behind, gab_called,
                    gab_head, head_info_result, branch_ahead_behind_result,
                    file_status_result, index_refreshed, index_written,
                    theme_git, subVars >>

\* line 81: file_status_result = file_status(&repo, &options).ok_or_log()
B_FileStatus ==
    /\ pcB = "file_status"
    /\ \E repo \in StatusRepos(MainWorktrees) :
          LET r == file_status(repo, Unwrap(options))
          IN  /\ index_refreshed' = StatusRefreshes(repo, StatusOptionsOf(Unwrap(options)))
              /\ index_written' = StatusWrites(repo, StatusOptionsOf(Unwrap(options)))
              /\ log_calls' = Logged(r, "B.file_status")
              /\ stderr' = Printed(r, "B.file_status")
              /\ pcB' = AfterLog(r, "done", "done")
              /\ file_status_result' =
                    IF Panics(r) THEN file_status_result
                    ELSE ok_or_log(r, VERBOSE_ERRORS, APP_NAME).value
    /\ UNCHANGED << pc, pcA, APP_NAME, VERBOSE_ERRORS, pcd_result, git_dir_buf,
                    options, head_info_internal, ahead_behind, gab_called,
                    gab_head, head_info_result, branch_ahead_behind_result, theme_git, subVars >>

(***************************************************************************)
(* process_repo after the scope, and the rest of main                      *)
(***************************************************************************)
Ended(p) == p \in { "done", "panicked" }

\* line 83: the scope returns once both threads have ended, and panics
\* itself when one of them panicked
Join ==
    /\ pc = "join"
    /\ Ended(pcA) /\ Ended(pcB)
    /\ pc' = IF pcA = "panicked" \/ pcB = "panicked" THEN "scope_panicked" ELSE "build"
    /\ UNCHANGED << pcA, pcB, APP_NAME, VERBOSE_ERRORS, log_calls, stderr,
                    pcd_result, git_dir_buf, options, head_info_internal,
                    ahead_behind, gab_called, gab_head, head_info_result,
                    branch_ahead_behind_result, file_status_result,
                    index_refreshed, index_written, theme_git, subVars >>

\* lines 85-89
Build ==
    /\ pc = "build"
    /\ pcd_result' = Some(Ok([head_info           |-> head_info_result,
                              file_status         |-> file_status_result,
                              branch_ahead_behind |-> branch_ahead_behind_result]))
    /\ pc' = "ok_or_log"
    /\ UNCHANGED << pcA, pcB, APP_NAME, VERBOSE_ERRORS, log_calls, stderr,
                    git_dir_buf, options, head_info_internal, ahead_behind,
                    gab_called, gab_head, head_info_result,
                    branch_ahead_behind_result, file_status_result,
                    index_refreshed, index_written, theme_git, subVars >>

\* main.rs line 20: process_current_dir(..).ok_or_log()
MainOkOrLog ==
    /\ pc = "ok_or_log"
    /\ log_calls' = Logged(Unwrap(pcd_result), "main")
    /\ stderr' = Printed(Unwrap(pcd_result), "main")
    /\ pc' = IF Panics(Unwrap(pcd_result)) THEN "log_panicked" ELSE "render"
    /\ theme_git' = IF Panics(Unwrap(pcd_result)) THEN theme_git
                    ELSE Some(ok_or_log(Unwrap(pcd_result), VERBOSE_ERRORS, APP_NAME).value)
    /\ UNCHANGED << pcA, pcB, APP_NAME, VERBOSE_ERRORS, pcd_result, git_dir_buf,
                    options, head_info_internal, ahead_behind, gab_called,
                    gab_head, head_info_result, branch_ahead_behind_result,
                    file_status_result, index_refreshed, index_written, subVars >>

\* main.rs lines 22-27: the prompt is printed and main returns Ok(())
Render ==
    /\ pc = "render"
    /\ pc' = "done"
    /\ UNCHANGED << pcA, pcB, APP_NAME, VERBOSE_ERRORS, log_calls, stderr,
                    pcd_result, git_dir_buf, options, head_info_internal,
                    ahead_behind, gab_called, gab_head, head_info_result,
                    branch_ahead_behind_result, file_status_result,
                    index_refreshed, index_written, theme_git, subVars >>

Next ==
    \/ InitAppName
    \/ GitSubfolder
    \/ ConfigurationOverrided
    \/ SpawnA
    \/ SpawnB
    \/ A_Open
    \/ A_HeadInfo
    \/ A_AheadBehind
    \/ A_Store
    \/ B_Open
    \/ B_FileStatus
    \/ Join
    \/ Build
    \/ MainOkOrLog
    \/ Render

Spec == Init /\ [][Next]_vars

(***************************************************************************)
(* SpecLocate: process_current_dir's search applied to every bounded tree  *)
(***************************************************************************)
InitLocate ==
    /\ MainInit /\ StIdle /\ CfgIdle
    /\ loc_in \in { Some([start_folder |-> sf, fs |-> fs]) :
                       sf \in StartFolders(MaxDepth), fs \in FsSet(MaxDepth) }
    /\ loc_out = None

LocateApply ==
    /\ loc_in # None
    /\ loc_out = None
    /\ loc_out' = Some([sub |-> git_subfolder(Unwrap(loc_in).start_folder, Unwrap(loc_in).fs),
                        pcd |-> locate(Unwrap(loc_in).start_folder, Unwrap(loc_in).fs)])
    /\ UNCHANGED << mainVars, loc_in, stVars, cfgVars >>

NextLocate == LocateApply

SpecLocate == InitLocate /\ [][NextLocate]_vars

(***************************************************************************)
(* SpecStatus: file_status applied to every bounded working tree           *)
(***************************************************************************)
\* the resolved options that steer the status call
StatusSteering ==
    { o \in [ Flags -> BOOLEAN ] : o.include_submodules /\ o.include_ahead_behind }

InitStatus ==
    /\ MainInit /\ LocIdle /\ CfgIdle
    /\ st_in \in { Some([repo |-> r, opts |-> o]) :
                      r \in { x \in StatusRepos(Worktrees) : x.stale },
                      o \in StatusSteering }
    /\ st_scanned = None
    /\ st_out = None

StatusApply ==
    /\ st_in # None
    /\ st_out = None
    /\ st_scanned' = Some(repo_statuses(Unwrap(st_in).repo,
                                        StatusOptionsOf(Unwrap(st_in).opts)))
    /\ st_out' = Some(file_status(Unwrap(st_in).repo, Unwrap(st_in).opts))
    /\ UNCHANGED << mainVars, locVars, st_in, cfgVars >>

NextStatus == StatusApply

SpecStatus == InitStatus /\ [][NextStatus]_vars

(***************************************************************************)
(* SpecConfig: configuration_overrided applied to every configuration and  *)
(* every request, then the match of Unit A on its result                   *)
(***************************************************************************)
InitConfig ==
    /\ MainInit /\ LocIdle /\ StIdle
    /\ cfg_in \in { Some([repo_open |-> r, config |-> c, input |-> i]) :
                       r \in OpenResults, c \in Configs, i \in InputOptions }
    /\ cfg_out = None

ConfigApply ==
    /\ cfg_in # None
    /\ cfg_out = None
    /\ cfg_out' = Some([options |-> configuration_overrided(Unwrap(cfg_in).repo_open,
                                                           Ok(Unwrap(cfg_in).config),
                                                           Unwrap(cfg_in).input),
                        match   |-> None])
    /\ UNCHANGED << mainVars, locVars, stVars, cfg_in >>

ConfigUnitA ==
    /\ cfg_out # None
    /\ Unwrap(cfg_out).options.ok
    /\ Unwrap(cfg_out).match = None
    /\ \E gab \in { Err("Git"), Ok([ahead |-> 3, behind |-> 2]) } :
          cfg_out' = Some([Unwrap(cfg_out) EXCEPT
                              !.match = Some(ahead_behind_match(Unwrap(cfg_out).options.val, gab))])
    /\ UNCHANGED << mainVars, locVars, stVars, cfg_in >>

NextConfig == ConfigApply \/ ConfigUnitA

SpecConfig == InitConfig /\ [][NextConfig]_vars

(***************************************************************************)
(* Properties                                                              *)
(***************************************************************************)
ASites == { "A.open", "A.head_info", "A.resolve", "A.graph_ahead_behind" }
BSites == { "B.open", "B.file_status" }

UnitAFailed == log_calls \cap ASites # {}
UnitBFailed == log_calls \cap BSites # {}

\* process_repo spawned its units and is over, by return or by unwinding
ProcessRepoOver ==
    /\ options # None
    /\ pc \in { "scope_panicked", "ok_or_log", "log_panicked", "render", "done" }

\* C1: when one unit fails and the other succeeds, process_repo returns Ok
\* with the succeeding unit's fields present and the failing unit's absent.
C1_FailureIsolated ==
    /\ (ProcessRepoOver /\ UnitBFailed /\ ~UnitAFailed) =>
          /\ pcd_result # None
          /\ Unwrap(pcd_result).ok
          /\ Unwrap(pcd_result).val.head_info # None
          /\ Unwrap(pcd_result).val.branch_ahead_behind # None
          /\ Unwrap(pcd_result).val.file_status = None
    /\ (ProcessRepoOver /\ UnitAFailed /\ ~UnitBFailed) =>
          /\ pcd_result # None
          /\ Unwrap(pcd_result).ok
          /\ Unwrap(pcd_result).val.file_status # None

\* C2: the three results are read only after both units have ended, and
\* once both have ended process_repo returns (it does not end any other way).
C2_JoinThenReturn ==
    /\ (pc = "build" \/ (pcd_result # None /\ Unwrap(pcd_result).ok)) =>
          (Ended(pcA) /\ Ended(pcB))
    /\ pc # "scope_panicked"

\* C4: a failure to locate the repository or to resolve its configuration
\* is returned as an error with no unit started and no GitOutputOptions,
\* and main goes on to render without the git segment.
C4_FatalErrorsRenderWithoutGit ==
    (pcd_result # None /\ ~Unwrap(pcd_result).ok) =>
        /\ pcA = "unspawned" /\ pcB = "unspawned"
        /\ head_info_result = None /\ file_status_result = None
        /\ pc \in { "ok_or_log", "render", "done" }
        /\ (pc \in { "render", "done" } => theme_git = Some(None))

\* the head graph_ahead_behind was entered with lacks a name or an oid
GabHeadLacks ==
    /\ gab_called
    /\ \/ Unwrap(gab_head) = None
       \/ Unwrap(Unwrap(gab_head)).reference_name = None
       \/ Unwrap(Unwrap(gab_head)).oid = None

\* C5 as stated: when graph_ahead_behind is entered with a head that lacks
\* reference_name or oid, Unit A ends with a zeroed branch_ahead_behind.
C5_ZeroSubstituted ==
    (GabHeadLacks /\ Ended(pcA)) => branch_ahead_behind_result = Some(ZeroAheadBehind)

\* C5 as amended: in that case the error reaches ok_or_log and nothing is
\* substituted, so branch_ahead_behind stays absent; the zeroed value is
\* what Unit A holds exactly when the resolved include_ahead_behind is false.
C5_AbsentNotZeroed ==
    /\ GabHeadLacks =>
          /\ "A.graph_ahead_behind" \in log_calls
          /\ ahead_behind = None
          /\ branch_ahead_behind_result = None
          /\ (pcd_result # None /\ Unwrap(pcd_result).ok =>
                 Unwrap(pcd_result).val.branch_ahead_behind = None)
    /\ (pcA \in { "store", "done" } /\ ~Unwrap(options).include_ahead_behind) =>
          (~gab_called /\ ahead_behind = Some(ZeroAheadBehind))

\* C5 witness: Unit A has ended after entering graph_ahead_behind with a
\* resolved head that lacks its name or its oid
C5_Witness ==
    /\ GabHeadLacks
    /\ Unwrap(gab_head) # None
    /\ Unwrap(options).include_ahead_behind
    /\ Ended(pcA)

\* C7: with refresh_status resolved to false the status call neither
\* refreshes the index nor writes it back.
C7_IndexUntouched ==
    (options # None /\ ~Unwrap(options).refresh_status) =>
        (~index_refreshed /\ ~index_written)

\* C9: when following the symbolic HEAD fails, head_info still returns Ok
\* with the target's name and no oid, and Unit A carries on with it.
C9_UnbornKeepsName ==
    ("A.resolve" \in log_calls) =>
        /\ pcA # "panicked" \/ "A.graph_ahead_behind" \in log_calls
        /\ head_info_internal # None
        /\ Unwrap(head_info_internal).reference_name = Some(RefsHeadsMain)
        /\ Unwrap(head_info_internal).oid = None
        /\ (pcA = "done" =>
               /\ head_info_result # None
               /\ Unwrap(head_info_result).reference_short = Some(<< "main" >>)
               /\ Unwrap(head_info_result).oid_short = None)

\* C10: both set-once globals are initialised before any call of log, so no
\* thread ends in a panic.
C10_LogNeverPanics ==
    /\ (log_calls # {} => (VERBOSE_ERRORS # None /\ APP_NAME # None))
    /\ pcA # "panicked" /\ pcB # "panicked"
    /\ pc \notin { "scope_panicked", "log_panicked" }

Max(S) == CHOOSE x \in S : \A y \in S : y <= x

FileFlags == { "conflict", "untracked", "typechange", "unstaged", "staged" }

\* the status bits the specification maps to each flag
BitsOfFlag(flag) ==
    CASE flag = "staged"     -> { 0, 1, 2, 3, 4 }
      [] flag = "unstaged"   -> { 8, 9, 11 }
      [] flag = "untracked"  -> { 7 }
      [] flag = "typechange" -> { 10 }
      [] flag = "conflict"   -> { 15 }

\* C6: each flag is true iff some scanned path carries a bit mapped to it;
\* a staged new file with an untracked file gives staged and untracked
\* only, and an empty list gives no flag.
C6_FlagIffSomePath ==
    (st_out # None /\ Unwrap(st_out).ok) =>
      LET scanned == Unwrap(st_scanned).val
          res     == Unwrap(st_out).val
      IN  /\ \A f \in FileFlags :
                res[f] <=> (\E i \in DOMAIN scanned : scanned[i] \cap BitsOfFlag(f) # {})
          /\ scanned = << {0}, {7} >> =>
                res = [conflict |-> FALSE, untracked |-> TRUE, typechange |-> FALSE,
                       unstaged |-> FALSE, staged |-> TRUE]
          /\ scanned = << >> =>
                res = [conflict |-> FALSE, untracked |-> FALSE, typechange |-> FALSE,
                       unstaged |-> FALSE, staged |-> FALSE]

\* C6 witness: one staged new file and one untracked file were scanned
C6_Witness ==
    /\ st_out # None
    /\ Unwrap(st_out).ok
    /\ Unwrap(st_scanned).val = << {0}, {7} >>
    /\ Unwrap(st_out).val.staged
    /\ Unwrap(st_out).val.untracked
    /\ ~Unwrap(st_out).val.unstaged

\* the key the specification names for each flag
KeyOfFlag(flag) ==
    CASE flag = "include_submodules"    -> "include-submodules"
      [] flag = "include_untracked"     -> "include-untracked"
      [] flag = "refresh_status"        -> "refresh-status"
      [] flag = "include_ahead_behind"  -> "include-ahead-behind"
      [] flag = "include_workdir_stats" -> "include-workdir-stats"

\* the value the specification gives a flag: the configured boolean when its
\* own key holds one, the request's default otherwise
ExpectedFlag(config, input, flag) ==
    LET text == config[<< CARGO_BIN_NAME, KeyOfFlag(flag) >>]
    IN  IF text \in { "true", "yes", "on", "1" } THEN TRUE
        ELSE IF text \in { "false", "no", "off", "0" } THEN FALSE
        ELSE input[flag]

\* C8: every flag resolves to its own key's boolean when there is one and
\* to the request default otherwise, and Unit A computes ahead/behind
\* exactly when the resolved include_ahead_behind is true.
C8_ConfigWinsPerFlag ==
    cfg_out # None =>
      LET config == Unwrap(cfg_in).config
          input  == Unwrap(cfg_in).input
          out    == Unwrap(cfg_out)
      IN  /\ out.options.ok <=> Unwrap(cfg_in).repo_open.ok
          /\ out.options.ok =>
                \A f \in Flags : out.options.val[f] = ExpectedFlag(config, input, f)
          /\ out.match # None =>
                /\ Unwrap(out.match).computed
                      = ExpectedFlag(config, input, "include_ahead_behind")
                /\ ~Unwrap(out.match).computed =>
                      Unwrap(out.match).result = Ok(ZeroAheadBehind)

\* C8 witness: the configuration turns ahead/behind on against the request default and
\* holds a malformed refresh-status, which falls back to the default
C8_Witness ==
    /\ cfg_out # None
    /\ Unwrap(cfg_out).match # None
    /\ ~Unwrap(cfg_in).input.include_ahead_behind
    /\ Unwrap(cfg_in).config[Key("include-ahead-behind")] = "true"
    /\ Unwrap(cfg_in).config[Key("refresh-status")] = "junk"
    /\ Unwrap(cfg_in).input.refresh_status
    /\ Unwrap(cfg_out).options.val.refresh_status
    /\ Unwrap(Unwrap(cfg_out).match).computed

====
